---- MODULE Spec2Model ----
(***************************************************************************)
(* toml_to_json.py: conversion of TOML snippets to VSCode JSON snippets.   *)
(*                                                                         *)
(* The state machine is one run of the main program: the parsed document   *)
(* is converted record by record by process_body_data, the result is       *)
(* serialised and handed to output_result.  A text is a sequence of        *)
(* one-character strings; a list of lines is a sequence of texts.  A       *)
(* Python dict is a function whose DOMAIN is the set of its keys; the      *)
(* top-level dict also keeps its keys in insertion order.                  *)
(***************************************************************************)
EXTENDS Integers, Sequences, FiniteSets, TLC

VARIABLES
    toml_str,        \* the input document (sequence of sections), never written
    json_file_path,  \* args.json_file_path: None or a path
    overwrite,       \* args.overwrite
    fs,              \* the file system: path -> [exists, data]
    stdout,          \* what has been printed
    pc,              \* position of the run
    data,            \* convert_toml_string: the dict returned by toml.loads
    i,               \* number of records the comprehension has consumed
    body,            \* process_body_data: local variable body
    out,             \* the dict the comprehension is building
    result_json,     \* the serialised result
    err              \* the exception that ended the run, if any

vars == <<toml_str, json_file_path, overwrite, fs, stdout, pc, data, i, body,
          out, result_json, err>>

-----------------------------------------------------------------------------
(* Bounds of the model.                                                    *)

MaxLines == 3
MaxRecords == 2

-----------------------------------------------------------------------------
(* Values.                                                                 *)

NL == "\n"
CR == "\r"
\* the other characters str.splitlines() ends a line at: form feed, vertical
\* tab, file, group and record separator, next line, line separator (U+2028)
\* and paragraph separator (U+2029); the last two, which the lexer does not
\* accept in a string, are written as their escapes, one token for each
FF == "\f"
VT == ""
FS == ""
GS == ""
RS == ""
NEL == ""
LSEP == "\\u2028"
PSEP == "\\u2029"
LineBoundaries == {NL, CR, FF, VT, FS, GS, RS, NEL, LSEP, PSEP}
None == "None"
NoJson == [t |-> "None"]
NoErr == [type |-> "None", info |-> <<>>]

StrValue(text) == [t |-> "str", s |-> text]
ListValue(lines) == [t |-> "list", l |-> lines]

Min(a, b) == IF a < b THEN a ELSE b
Max(a, b) == IF a > b THEN a ELSE b

\* key in d
Has(d, k) == k \in DOMAIN d
\* d after d.pop(k) / d.pop(k, default)
Pop(d, k) == [x \in DOMAIN d \ {k} |-> d[x]]
\* d after d[k] = v
Put(d, k, v) == [x \in DOMAIN d \cup {k} |-> IF x = k THEN v ELSE d[x]]
\* d.pop(k, default)
PopValue(d, k, default) == IF Has(d, k) THEN d[k] ELSE default

EmptyDict == [keys |-> <<>>, val |-> <<>>]

-----------------------------------------------------------------------------
(* String functions of the Python library, as the code uses them.          *)

\* str.split('\n'): the pieces between the separators, empty pieces kept
RECURSIVE SplitFrom(_, _, _)
SplitFrom(s, j, cur) ==
    IF j > Len(s) THEN <<cur>>
    ELSE IF s[j] = NL THEN <<cur>> \o SplitFrom(s, j + 1, <<>>)
    ELSE SplitFrom(s, j + 1, Append(cur, s[j]))

\* str.splitlines(): the lines ended by \r\n or by one line boundary
\* character (\n, \r, form feed, ...), and the rest of the text if it is
\* not empty; no empty last line after a final line break
RECURSIVE SplitLinesFrom(_, _, _)
SplitLinesFrom(s, j, cur) ==
    IF j > Len(s) THEN (IF cur = <<>> THEN <<>> ELSE <<cur>>)
    ELSE IF s[j] = CR /\ j < Len(s) /\ s[j + 1] = NL
         THEN <<cur>> \o SplitLinesFrom(s, j + 2, <<>>)
    ELSE IF s[j] \in LineBoundaries
         THEN <<cur>> \o SplitLinesFrom(s, j + 1, <<>>)
    ELSE SplitLinesFrom(s, j + 1, Append(cur, s[j]))

SplitLines(s) == SplitLinesFrom(s, 1, <<>>)

\* a variant of StrSplit: the inline body split like a file, by splitlines()
StrSplitAsLines(s) == SplitLines(s)

StrSplit(s) == SplitFrom(s, 1, <<>>)

\* open(path, encoding='utf-8').read(): text mode with universal newlines,
\* \r\n and \r are read as \n
RECURSIVE ReadFrom(_, _)
ReadFrom(s, j) ==
    IF j > Len(s) THEN <<>>
    ELSE IF s[j] = CR /\ j < Len(s) /\ s[j + 1] = NL
         THEN <<NL>> \o ReadFrom(s, j + 2)
    ELSE IF s[j] = CR THEN <<NL>> \o ReadFrom(s, j + 1)
    ELSE <<s[j]>> \o ReadFrom(s, j + 1)

ReadText(s) == ReadFrom(s, 1)

\* seq[a:b] of Python, for any integers a and b
PySlice(seq, a, b) ==
    LET n == Len(seq)
        lo == IF a < 0 THEN Max(n + a, 0) ELSE Min(a, n)
        hi == IF b < 0 THEN Max(n + b, 0) ELSE Min(b, n)
    IN IF lo < hi THEN SubSeq(seq, lo + 1, hi) ELSE <<>>

-----------------------------------------------------------------------------
(* process_body_data, its steps.                                           *)

\* 'source' in data
UsesSource(rec) == Has(rec, "source")

\* a variant of RangeOk: the assertion range[0] >= 1 is missing
RangeOkNoLowerBound(range) ==
    /\ Len(range) = 2
    /\ range[1] <= range[2]

\* the three assertions on range
RangeOk(range) ==
    /\ Len(range) = 2
    /\ range[1] <= range[2]
    /\ range[1] >= 1

\* while len(body) > 0 and len(body[0]) == 0: body = body[1:]
RECURSIVE TrimLeadingLoop(_)
TrimLeadingLoop(lines) ==
    IF Len(lines) > 0 /\ Len(lines[1]) = 0
    THEN TrimLeadingLoop(PySlice(lines, 1, Len(lines)))
    ELSE lines

\* a variant of TrimTrailingLoop: an if instead of the while
TrimTrailingOnce(lines) ==
    IF Len(lines) > 0 /\ Len(lines[Len(lines)]) = 0
    THEN PySlice(lines, 0, -1)
    ELSE lines

\* while len(body) > 0 and len(body[-1]) == 0: body = body[:-1]
RECURSIVE TrimTrailingLoop(_)
TrimTrailingLoop(lines) ==
    IF Len(lines) > 0 /\ Len(lines[Len(lines)]) = 0
    THEN TrimTrailingLoop(PySlice(lines, 0, -1))
    ELSE lines

\* a variant of CropLines: the slice starts at range[0], not range[0]-1
CropLinesFromStart(lines, range) == PySlice(lines, range[1], range[2])

\* a variant of CropLines: range counts the lines after the leading blank ones
CropAfterTrim(lines, range) ==
    PySlice(TrimLeadingLoop(lines), range[1] - 1, range[2])

\* body[range[0]-1:range[1]]
CropLines(lines, range) == PySlice(lines, range[1] - 1, range[2])

\* data.pop(flag, False) is True
FlagIsTrue(d, flag) == PopValue(d, flag, FALSE) = TRUE

-----------------------------------------------------------------------------
(* toml.loads and json.dumps.                                              *)

\* toml.loads: the sections of the document as a dict of dicts, in the
\* order of the document; a document that declares a section twice is
\* rejected with a TomlDecodeError that names the section
Loads(doc) ==
    IF \E j, k \in 1..Len(doc) : j < k /\ doc[j].name = doc[k].name
    THEN LET k == CHOOSE k \in 1..Len(doc) :
                     /\ \E j \in 1..(k - 1) : doc[j].name = doc[k].name
                     /\ \A m \in 1..(k - 1) :
                           \A j \in 1..(m - 1) : doc[j].name # doc[m].name
         IN [error |-> [type |-> "TomlDecodeError", info |-> <<doc[k].name>>]]
    ELSE [keys |-> [j \in 1..Len(doc) |-> doc[j].name],
          val  |-> [n \in {doc[j].name : j \in 1..Len(doc)} |->
                      (CHOOSE sec \in {doc[j] : j \in 1..Len(doc)} :
                           sec.name = n).attrs]]

\* json.dumps of one attribute value
JsonValue(k, v) ==
    IF k = "body" THEN
        IF v.t = "list"
        THEN [t |-> "array",
              items |-> [j \in 1..Len(v.l) |-> [t |-> "string", chars |-> v.l[j]]]]
        ELSE [t |-> "string", chars |-> v.s]
    ELSE IF k = "range" THEN [t |-> "array", numbers |-> v]
    ELSE IF k \in {"trim_leading_blank_lines", "trim_trailing_blank_lines"}
         THEN [t |-> "boolean", b |-> v]
    ELSE [t |-> "string", s |-> v]

\* json.dumps(data, indent=2): the JSON document, an object of objects
JsonDumps(d) ==
    [indent  |-> 2,
     keys    |-> d.keys,
     members |-> [n \in DOMAIN d.val |->
                    [k \in DOMAIN d.val[n] |-> JsonValue(k, d.val[n][k])]]]

-----------------------------------------------------------------------------
(* The inputs.                                                             *)

RECURSIVE Join(_)
Join(lines) ==
    IF Len(lines) = 0 THEN <<>>
    ELSE IF Len(lines) = 1 THEN lines[1]
    ELSE lines[1] \o <<NL>> \o Join(Tail(lines))

LineKinds == {<<>>, <<"a">>, <<" ">>}
LineSeqs == UNION {[1..m -> LineKinds] : m \in 1..MaxLines}

\* body = "a\n\nb\n"
ScenarioA == <<"a", NL, NL, "b", NL>>
ScenarioB == <<"a", NL, "b", NL, NL, "c", NL, "d", NL>>
\* a text with a form feed in a line
WithFormFeed == <<"a", FF, "b", NL, "c">>
Texts == {Join(ls) : ls \in LineSeqs} \cup {ScenarioA, ScenarioB, WithFormFeed}
\* a file with Windows line ends, and one with old Mac line ends
FileTexts ==
    Texts \cup {<<"a", CR, NL, CR, NL, "b">>, <<CR, "a", CR>>,
                <<"a", VT, "b", NL>>, <<"a", NEL, RS, "b">>,
                <<"a", LSEP, "b", NL>>, <<"a", PSEP, "b", NL, "c">>}

Ranges ==
    {<<s, e>> : s \in 0..(MaxLines + 1), e \in 0..(MaxLines + 1)}
        \cup {<<1>>, <<1, 2, 3>>}

\* an optional attribute: <<>> when absent, <<v>> when present
Opt(S) == {<<>>} \cup {<<v>> : v \in S}

ExtensionKeys ==
    {"source", "range", "trim_leading_blank_lines", "trim_trailing_blank_lines"}

\* the record of one section, from its optional attributes
Record(opts) ==
    [k \in {x \in DOMAIN opts : opts[x] # <<>>} |-> opts[k][1]]

SourceFile == "file.txt"
MissingFile == "missing.txt"
DestFile == "out.json"

DecoyBody == StrValue(<<"z", NL, NL>>)
DecoyText == <<"f", NL>>

\* what an earlier run left at the destination
OldJson ==
    JsonDumps([keys |-> <<"old">>,
               val  |-> [n \in {"old"} |->
                           [k \in {"prefix", "body"} |->
                              IF k = "body" THEN ListValue(<<<<"o">>>>) ELSE "old"]]])

FileSystem(text, destExists) ==
    [p \in {SourceFile, MissingFile, DestFile} |->
        IF p = SourceFile THEN [exists |-> TRUE, data |-> text]
        ELSE IF p = MissingFile THEN [exists |-> FALSE]
        ELSE IF destExists THEN [exists |-> TRUE, data |-> OldJson]
        ELSE [exists |-> FALSE]]

Names == <<"for", "lambda", "while", "if", "switch">>

\* how a record says where its body comes from: <<source, body, file text>>
Acquisitions ==
    {<<<<>>, <<StrValue(t)>>, DecoyText>> : t \in Texts}
        \cup {<<<<SourceFile>>, b, t>> : b \in {<<>>, <<DecoyBody>>}, t \in FileTexts}
        \cup {<<<<MissingFile>>, b, DecoyText>> : b \in {<<>>, <<DecoyBody>>}}

\* one record with every combination of the extension attributes
InitOne ==
    \E acq \in Acquisitions, r \in Opt(Ranges),
       tl \in Opt(BOOLEAN), tt \in Opt(BOOLEAN) :
        /\ toml_str = <<[name  |-> Names[1],
                         attrs |-> Record([prefix |-> <<"p">>,
                                           description |-> <<"d">>,
                                           source |-> acq[1],
                                           body |-> acq[2],
                                           range |-> r,
                                           trim_leading_blank_lines |-> tl,
                                           trim_trailing_blank_lines |-> tt])]>>
        /\ fs = FileSystem(acq[3], FALSE)
        /\ json_file_path = None
        /\ overwrite = FALSE

\* the records of a document of several sections
SmallRecords ==
    {Record([prefix |-> <<"p">>, scope |-> <<"cpp">>, body |-> <<StrValue(ScenarioA)>>,
             trim_trailing_blank_lines |-> <<TRUE>>]),
     Record([prefix |-> <<"q">>, body |-> <<StrValue(<<"a", NL, "b">>)>>]),
     Record([prefix |-> <<"p">>, x_custom |-> <<"kept">>, body |-> <<DecoyBody>>,
             source |-> <<SourceFile>>, range |-> <<<<2, 4>>>>,
             trim_leading_blank_lines |-> <<FALSE>>]),
     Record([prefix |-> <<"p">>, body |-> <<StrValue(ScenarioA)>>,
             range |-> <<<<3, 2>>>>]),
     Record([prefix |-> <<"p">>, body |-> <<StrValue(ScenarioA)>>,
             range |-> <<<<0, 2>>>>]),
     Record([prefix |-> <<"p">>, source |-> <<MissingFile>>]),
     \* a record in its resolved form: the body is a list of lines
     Record([prefix |-> <<"p">>, body |-> <<ListValue(<<<<"a">>, <<>>>>)>>]),
     \* a record with neither body nor source
     Record([prefix |-> <<"p">>, trim_leading_blank_lines |-> <<TRUE>>])}

InitMany ==
    \E n \in 1..MaxRecords :
    \E recs \in [1..n -> SmallRecords], path \in {None, DestFile},
       ow \in BOOLEAN, ex \in BOOLEAN, twice \in BOOLEAN :
        \* with twice, every section declares the first name again
        /\ toml_str = [j \in 1..n |->
                         [name  |-> IF twice THEN Names[1] ELSE Names[j],
                          attrs |-> recs[j]]]
        /\ fs = FileSystem(ScenarioB, ex)
        /\ json_file_path = path
        /\ overwrite = ow

Init ==
    /\ InitOne \/ InitMany
    /\ stdout = <<>>
    /\ pc = "load"
    /\ data = EmptyDict
    /\ i = 0
    /\ body = <<>>
    /\ out = EmptyDict
    /\ result_json = NoJson
    /\ err = NoErr

-----------------------------------------------------------------------------
(* The run.                                                                *)

\* a variant of Raise: the error is noted and the run goes on to the output
RaiseAndOutput(e) ==
    /\ pc' = "output"
    /\ err' = e

\* an exception nobody catches ends the run
Raise(e) ==
    /\ pc' = "raised"
    /\ err' = e

\* the snippet process_body_data is working on, and its record
CurrentName == data.keys[i + 1]
Current == data.val[CurrentName]
SetCurrent(rec) == [data EXCEPT !.val[CurrentName] = rec]

\* data = toml.loads(toml_str)
TomlLoads ==
    /\ pc = "load"
    /\ LET loaded == Loads(toml_str) IN
       IF Has(loaded, "error")
       THEN /\ Raise(loaded["error"])
            /\ UNCHANGED <<data, i, out>>
       ELSE /\ data' = loaded
            /\ i' = 0
            /\ out' = EmptyDict
            /\ pc' = "iter"
            /\ err' = err
    /\ UNCHANGED <<toml_str, json_file_path, overwrite, fs, stdout, body,
                   result_json>>

\* the comprehension takes the next item and process_body_data gets the body
Acquire ==
    /\ pc = "iter"
    /\ i < Len(data.keys)
    /\ IF UsesSource(Current) THEN
           LET path == Current["source"] IN
           /\ data' = SetCurrent(Pop(Current, "source"))
           /\ IF fs[path].exists
              THEN /\ body' = SplitLines(ReadText(fs[path].data))
                   /\ pc' = "crop"
                   /\ err' = err
              ELSE /\ Raise([type |-> "FileNotFoundError", info |-> <<path>>])
                   /\ body' = <<>>
       ELSE IF ~Has(Current, "body") THEN
           /\ Raise([type |-> "KeyError", info |-> <<"body">>])
           /\ body' = <<>>
           /\ data' = data
       ELSE IF Current["body"].t # "str" THEN
           /\ Raise([type |-> "AttributeError", info |-> <<Current["body"].t, "split">>])
           /\ body' = <<>>
           /\ data' = data
       ELSE
           /\ body' = StrSplit(Current["body"].s)
           /\ pc' = "crop"
           /\ UNCHANGED <<data, err>>
    /\ UNCHANGED <<toml_str, json_file_path, overwrite, fs, stdout, i, out,
                   result_json>>

\* if 'range' in data: ...
Crop ==
    /\ pc = "crop"
    /\ IF Has(Current, "range") THEN
           LET range == Current["range"] IN
           /\ data' = SetCurrent(Pop(Current, "range"))
           /\ IF RangeOk(range)
              THEN /\ body' = CropLines(body, range)
                   /\ pc' = "trim_leading"
                   /\ err' = err
              ELSE /\ Raise([type |-> "AssertionError", info |-> <<>>])
                   /\ body' = body
       ELSE
           /\ pc' = "trim_leading"
           /\ UNCHANGED <<data, body, err>>
    /\ UNCHANGED <<toml_str, json_file_path, overwrite, fs, stdout, i, out,
                   result_json>>

\* a variant of TrimLeading: the flag is popped only when it is true
TrimLeadingKeepsFlag ==
    /\ pc = "trim_leading"
    /\ IF FlagIsTrue(Current, "trim_leading_blank_lines")
       THEN /\ data' = SetCurrent(Pop(Current, "trim_leading_blank_lines"))
            /\ body' = TrimLeadingLoop(body)
       ELSE UNCHANGED <<data, body>>
    /\ pc' = "trim_trailing"
    /\ UNCHANGED <<toml_str, json_file_path, overwrite, fs, stdout, i, out,
                   result_json, err>>

\* if data.pop('trim_leading_blank_lines', False) is True: ...
TrimLeading ==
    /\ pc = "trim_leading"
    /\ data' = SetCurrent(Pop(Current, "trim_leading_blank_lines"))
    /\ body' = IF FlagIsTrue(Current, "trim_leading_blank_lines")
               THEN TrimLeadingLoop(body) ELSE body
    /\ pc' = "trim_trailing"
    /\ UNCHANGED <<toml_str, json_file_path, overwrite, fs, stdout, i, out,
                   result_json, err>>

\* if data.pop('trim_trailing_blank_lines', False) is True: ...
TrimTrailing ==
    /\ pc = "trim_trailing"
    /\ data' = SetCurrent(Pop(Current, "trim_trailing_blank_lines"))
    /\ body' = IF FlagIsTrue(Current, "trim_trailing_blank_lines")
               THEN TrimTrailingLoop(body) ELSE body
    /\ pc' = "return"
    /\ UNCHANGED <<toml_str, json_file_path, overwrite, fs, stdout, i, out,
                   result_json, err>>

\* data['body'] = body; return data; the comprehension stores k: data
Return ==
    /\ pc = "return"
    /\ LET rec == Put(Current, "body", ListValue(body)) IN
       /\ data' = SetCurrent(rec)
       /\ out' = [keys |-> Append(out.keys, CurrentName),
                  val  |-> Put(out.val, CurrentName, rec)]
    /\ i' = i + 1
    /\ pc' = "iter"
    /\ UNCHANGED <<toml_str, json_file_path, overwrite, fs, stdout, body,
                   result_json, err>>

\* result_json = json.dumps(data, indent=2), once every record is done
Dumps ==
    /\ pc = "iter"
    /\ i = Len(data.keys)
    /\ result_json' = JsonDumps(out)
    /\ pc' = "output"
    /\ UNCHANGED <<toml_str, json_file_path, overwrite, fs, stdout, data, i,
                   body, out, err>>

\* a variant of DestinationTaken: the test of overwrite is inverted
DestinationTakenUnlessKept(path, ow) == fs[path].exists /\ ow = TRUE

\* os.path.exists(json_file_path) and overwrite is False
DestinationTaken(path, ow) == fs[path].exists /\ ow = FALSE

\* output_result(result_json, args.json_file_path, args.overwrite)
OutputResult ==
    /\ pc = "output"
    /\ IF json_file_path = None THEN
           /\ stdout' = Append(stdout, [text |-> result_json, end |-> NL])
           /\ pc' = "exit"
           /\ UNCHANGED <<fs, err>>
       ELSE IF DestinationTaken(json_file_path, overwrite) THEN
           /\ Raise([type |-> "OSError", info |-> <<json_file_path, "-f">>])
           /\ UNCHANGED <<fs, stdout>>
       ELSE
           /\ fs' = [fs EXCEPT ![json_file_path] =
                        [exists |-> TRUE, data |-> result_json]]
           /\ pc' = "exit"
           /\ UNCHANGED <<stdout, err>>
    /\ UNCHANGED <<toml_str, json_file_path, overwrite, data, i, body, out,
                   result_json>>

Next ==
    \/ TomlLoads
    \/ Acquire
    \/ Crop
    \/ TrimLeading
    \/ TrimTrailing
    \/ Return
    \/ Dumps
    \/ OutputResult

Spec == Init /\ [][Next]_vars

-----------------------------------------------------------------------------
(* What the claims speak about.                                            *)

\* the record of section j as the document states it
Input(j) == toml_str[j].attrs
NameOf(j) == toml_str[j].name
Sections == 1..Len(toml_str)

\* section j has been resolved: the comprehension holds its result
Resolved(j) == pc # "load" /\ j <= i
ResolvedBody(j) == out.val[NameOf(j)]["body"]

ResolverErrors == {"AssertionError", "FileNotFoundError", "KeyError", "AttributeError"}
\* process_body_data raised while working on section j
FailedAt(j) == pc = "raised" /\ err.type \in ResolverErrors /\ i = j - 1

\* process_body_data is working on a record, at the given step
At(step) == pc = step /\ i < Len(data.keys)

\* range is [start, end] with 1 <= start <= end
ValidRange(range) == Len(range) = 2 /\ 1 <= range[1] /\ range[1] <= range[2]

\* lines s..min(e, N) of lines, in their order
LinesFromTo(lines, s, e) ==
    LET N == Len(lines)
        n == IF s <= N THEN Min(e, N) - s + 1 ELSE 0
    IN [k \in 1..n |-> lines[s + k - 1]]

NoLineBreak(lines) == \A k \in 1..Len(lines) : \A c \in 1..Len(lines[k]) : lines[k][c] # NL

\* lines are the lines of a file whose text (as read) is text
IsLinesOfFile(lines, text) ==
    /\ NoLineBreak(lines)
    /\ \/ lines = <<>> /\ text = <<>>
       \/ lines # <<>> /\ Join(lines) \o <<NL>> = text
       \/ lines # <<>> /\ Join(lines) = text /\ lines[Len(lines)] # <<>>

\* lines are the pieces of text between its line breaks
IsSplitOf(lines, text) ==
    /\ NoLineBreak(lines)
    /\ lines # <<>>
    /\ Join(lines) = text

\* the number of blank lines lines starts with / ends with
LeadingBlanks(lines) ==
    CHOOSE n \in 0..Len(lines) :
        /\ \A k \in 1..n : lines[k] = <<>>
        /\ n = Len(lines) \/ lines[n + 1] # <<>>
TrailingBlanks(lines) ==
    CHOOSE n \in 0..Len(lines) :
        /\ \A k \in 1..n : lines[Len(lines) + 1 - k] = <<>>
        /\ n = Len(lines) \/ lines[Len(lines) - n] # <<>>

WithoutLeadingBlanks(lines) == SubSeq(lines, LeadingBlanks(lines) + 1, Len(lines))
WithoutTrailingBlanks(lines) == SubSeq(lines, 1, Len(lines) - TrailingBlanks(lines))

IsTrue(rec, flag) == Has(rec, flag) /\ rec[flag] = TRUE

-----------------------------------------------------------------------------
(* The claims.                                                             *)

\* C1 Range law: on a body of N lines and a range [s, e] with 1 <= s <= e,
\* the cropping step succeeds and leaves exactly lines s..min(e, N) of the
\* acquired body, in order: min(e, N) - s + 1 lines when s <= N, none when
\* s > N; an end beyond N is no error.
C1_RangeLaw ==
    [][(At("crop") /\ Has(Current, "range") /\ ValidRange(Current["range"]))
          => LET s == Current["range"][1]
                 e == Current["range"][2]
                 N == Len(body)
             IN /\ pc' = "trim_leading"
                /\ err' = NoErr
                /\ body' = LinesFromTo(body, s, e)
                /\ Len(body') = (IF s <= N THEN Min(e, N) - s + 1 ELSE 0)]_vars

\* a three-line body cropped by [2, MaxLines + 1]: the end is beyond the body
C1_Witness ==
    /\ At("trim_leading")
    /\ ~Has(Input(i + 1), "source")
    /\ Has(Input(i + 1), "range")
    /\ Input(i + 1)["range"] = <<2, MaxLines + 1>>
    /\ Input(i + 1)["body"] = StrValue(<<"a", NL, " ", NL, "a">>)
    /\ body = <<<<" ">>, <<"a">>>>

\* the error process_body_data raises before it looks at range, if any
AcquisitionFails(rec) ==
    IF Has(rec, "source") THEN ~fs[rec["source"]].exists
    ELSE ~Has(rec, "body") \/ rec["body"].t # "str"

\* C2 as stated: a record whose range is not [start, end] with
\* 1 <= start <= end is never resolved and its failure is the ConfigError
\* (the AssertionError of the code); a record with a valid range never
\* fails with that error.
C2_Original ==
    \A j \in Sections :
        Has(Input(j), "range") =>
            IF ValidRange(Input(j)["range"])
            THEN ~(FailedAt(j) /\ err.type = "AssertionError")
            ELSE /\ ~Resolved(j)
                 /\ FailedAt(j) => err.type = "AssertionError"

\* C2 range validation, amended: a record whose range (a sequence of
\* integers) is not [start, end] with 1 <= start <= end is never resolved;
\* its failure is the AssertionError of the range check whenever the body
\* was acquired, and the error of the acquisition (raised first) otherwise;
\* a record with a valid range never fails with the range error, whatever
\* the number of body lines.
C2_RangeValidation ==
    \A j \in Sections :
        Has(Input(j), "range") =>
            IF ValidRange(Input(j)["range"])
            THEN ~(FailedAt(j) /\ err.type = "AssertionError")
            ELSE /\ ~Resolved(j)
                 /\ pc \in {"trim_leading", "trim_trailing", "return"} => i # j - 1
                 /\ FailedAt(j) =>
                       IF AcquisitionFails(Input(j))
                       THEN err.type \in ResolverErrors \ {"AssertionError"}
                       ELSE err = [type |-> "AssertionError", info |-> <<>>]

\* range = [3, 2] and range = [0, 2] on an inline body: the assertion fails
C2_Witness ==
    /\ FailedAt(1)
    /\ err.type = "AssertionError"
    /\ ~Has(Input(1), "source")
    /\ Input(1)["range"] \in {<<3, 2>>, <<0, 2>>}
    /\ out.keys = <<>>

\* C3 Source precedence: for a record with source, what enters cropping is
\* the lines of the referenced file (the pieces of its text between its
\* newlines), whether or not the record has an inline body, and the step
\* fails exactly when the file cannot be read; without source it is the
\* inline body text split at its newlines; the resolved body stored at the
\* end replaces the inline body.
C3_SourcePrecedence ==
    /\ [][At("iter") =>
            IF Has(Current, "source")
            THEN LET f == fs[Current["source"]] IN
                 /\ pc' = "raised" <=> ~f.exists
                 /\ pc' = "crop" <=> f.exists
                 /\ f.exists => IsLinesOfFile(body', ReadText(f.data))
            ELSE pc' = "crop" =>
                    /\ Has(Current, "body")
                    /\ IsSplitOf(body', Current["body"].s)]_vars
    /\ [][At("return") =>
            out'.val[CurrentName]["body"] = ListValue(body)]_vars

\* C4 Pass-through: when convert_toml_string has succeeded, the output has
\* exactly the input's snippet names; each output record has the input
\* record's attributes minus the four extension attributes, plus body; each
\* attribute other than body and those four keeps its input value.
C4_PassThrough ==
    result_json # NoJson =>
        /\ result_json.keys = [j \in Sections |-> NameOf(j)]
        /\ DOMAIN result_json.members = {NameOf(j) : j \in Sections}
        /\ \A j \in Sections :
              LET o == result_json.members[NameOf(j)] IN
              /\ DOMAIN o = (DOMAIN Input(j) \ ExtensionKeys) \cup {"body"}
              /\ DOMAIN o \cap ExtensionKeys = {}
              /\ o["body"].t = "array"
              /\ \A k \in DOMAIN Input(j) \ (ExtensionKeys \cup {"body"}) :
                    o[k] = [t |-> "string", s |-> Input(j)[k]]

\* a converted document with a record that had source, range, a trim flag
\* and an attribute the code does not know
C4_Witness ==
    /\ result_json # NoJson
    /\ \E j \in Sections :
          /\ {"source", "range", "trim_leading_blank_lines", "x_custom"}
                \subseteq DOMAIN Input(j)
          /\ result_json.members[NameOf(j)]["x_custom"] = [t |-> "string", s |-> "kept"]

\* C5 Destination collision: output_result called with a destination that
\* exists and overwrite false raises the OSError, leaves the file system as
\* it was and prints nothing.
C5_DestinationCollision ==
    [][(pc = "output" /\ json_file_path # None /\ fs[json_file_path].exists
           /\ overwrite = FALSE)
          => /\ pc' = "raised"
             /\ err'.type = "OSError"
             /\ err'.info[1] = json_file_path
             /\ fs' = fs
             /\ stdout' = stdout]_vars

\* the run ended on the collision and the destination holds what it held
C5_Witness ==
    /\ pc = "raised"
    /\ err.type = "OSError"
    /\ json_file_path = DestFile
    /\ overwrite = FALSE
    /\ fs[DestFile] = [exists |-> TRUE, data |-> OldJson]
    /\ result_json # NoJson
    /\ stdout = <<>>

\* process_body_data has raised
ResolverFailed == err.type \in ResolverErrors

\* C6 Fail-fast: once resolving a record has failed the run is over: the
\* records before it are the only ones resolved, the later ones are as the
\* parser left them, nothing was serialised, no step follows (output_result
\* is not reached), and neither the destination nor stdout is ever written
\* other than by a successful output_result.
C6_FailFast ==
    /\ [](ResolverFailed =>
            /\ pc = "raised"
            /\ i < Len(toml_str)
            /\ out.keys = [j \in 1..i |-> NameOf(j)]
            /\ \A j \in (i + 2)..Len(toml_str) : data.val[NameOf(j)] = Input(j)
            /\ result_json = NoJson
            /\ stdout = <<>>)
    /\ [][~ResolverFailed]_vars
    /\ [][(fs' # fs \/ stdout' # stdout)
            => (pc = "output" /\ pc' = "exit" /\ err' = NoErr)]_vars

\* the second record failed after the first was resolved, a destination
\* was given, and nothing was written to it
C6_Witness ==
    /\ ResolverFailed
    /\ i = 1
    /\ out.keys = <<NameOf(1)>>
    /\ Len(toml_str) = 2
    /\ json_file_path = DestFile
    /\ ~fs[DestFile].exists

NoExtension(rec) == DOMAIN rec \cap ExtensionKeys = {}

\* C7 as stated: a record with none of the four extension attributes keeps
\* its body: resolution does not fail on it and the body after resolution
\* equals the body before, so a resolved record (its body a list of lines)
\* is returned as it is.
C7_Original ==
    \A j \in Sections :
        (NoExtension(Input(j)) /\ Has(Input(j), "body")) =>
            /\ ~FailedAt(j)
            /\ Resolved(j) => ResolvedBody(j) = Input(j)["body"]

\* C7 amended: for a record with a text body and none of the four extension
\* attributes, resolution succeeds and the resolved body is the list of the
\* pieces of that text between its newlines: joined with newlines they give
\* the text back, nothing added, removed or changed; the value becomes a
\* list.  A record whose body is already a list of lines is not returned as
\* it is: process_body_data fails on it with an AttributeError.
C7_PlainBody ==
    \A j \in Sections :
        (NoExtension(Input(j)) /\ Has(Input(j), "body")) =>
            IF Input(j)["body"].t = "str"
            THEN /\ ~FailedAt(j)
                 /\ Resolved(j) =>
                       /\ ResolvedBody(j).t = "list"
                       /\ IsSplitOf(ResolvedBody(j).l, Input(j)["body"].s)
            ELSE /\ ~Resolved(j)
                 /\ pc \in {"crop", "trim_leading", "trim_trailing", "return"}
                       => i # j - 1
                 /\ FailedAt(j) => err.type = "AttributeError"

\* body = "a\n\nb\n" with no extension attribute: four lines, the last empty
C7_Witness ==
    /\ Resolved(1)
    /\ NoExtension(Input(1))
    /\ Input(1)["body"] = StrValue(ScenarioA)
    /\ ResolvedBody(1) = ListValue(<<<<"a">>, <<>>, <<"b">>, <<>>>>)

\* C8 Error diagnosability: the error raised when the resolver rejects a
\* record (invalid range, unreadable source) names the snippet.
C8_ErrorNamesSnippet ==
    (pc = "raised" /\ err.type \in {"AssertionError", "FileNotFoundError"})
        => \E k \in 1..Len(err.info) : err.info[k] = NameOf(i + 1)

\* C9 Blank-line trimming: with its flag true a trimming step removes the
\* maximal run of empty lines at its end of the body and nothing else, so
\* the result is empty or starts (ends) with a non-empty line; interior
\* blank lines and whitespace-only lines stay; with the flag absent or false
\* the step removes nothing.  body = "a\n\nb\n" with only
\* trim_trailing_blank_lines = true resolves to ["a", "", "b"].
C9_Trimming ==
    /\ [][At("trim_leading") =>
            /\ pc' = "trim_trailing"
            /\ IF IsTrue(Current, "trim_leading_blank_lines")
               THEN /\ body' = WithoutLeadingBlanks(body)
                    /\ body' = <<>> \/ body'[1] # <<>>
               ELSE body' = body]_vars
    /\ [][At("trim_trailing") =>
            /\ pc' = "return"
            /\ IF IsTrue(Current, "trim_trailing_blank_lines")
               THEN /\ body' = WithoutTrailingBlanks(body)
                    /\ body' = <<>> \/ body'[Len(body')] # <<>>
               ELSE body' = body]_vars
    /\ [](\A j \in Sections :
            (/\ Resolved(j)
             /\ DOMAIN Input(j) \cap ExtensionKeys = {"trim_trailing_blank_lines"}
             /\ Input(j)["trim_trailing_blank_lines"] = TRUE
             /\ Input(j)["body"] = StrValue(ScenarioA))
                => ResolvedBody(j) = ListValue(<<<<"a">>, <<>>, <<"b">>>>))

\* both flags true on the lines "", "", " ", "" ... : the blank lines at both
\* ends are gone, the whitespace-only line is kept
C9_Witness ==
    /\ At("return")
    /\ IsTrue(Input(i + 1), "trim_leading_blank_lines")
    /\ IsTrue(Input(i + 1), "trim_trailing_blank_lines")
    /\ ~Has(Input(i + 1), "source")
    /\ ~Has(Input(i + 1), "range")
    /\ Input(i + 1)["body"] = StrValue(<<NL, " ", NL>>)
    /\ body = <<<<" ">>>>

\* the lines process_body_data starts from
AcquiredLines(rec) ==
    IF Has(rec, "source") THEN SplitLines(ReadText(fs[rec["source"]].data))
    ELSE StrSplit(rec["body"].s)

\* trimTrailing(trimLeading(crop(acquired))), each step skipped when its
\* attribute is absent or false
InOrder(rec) ==
    LET acquired == AcquiredLines(rec)
        cropped  == IF Has(rec, "range")
                    THEN LinesFromTo(acquired, rec["range"][1], rec["range"][2])
                    ELSE acquired
        leading  == IF IsTrue(rec, "trim_leading_blank_lines")
                    THEN WithoutLeadingBlanks(cropped) ELSE cropped
    IN IF IsTrue(rec, "trim_trailing_blank_lines")
       THEN WithoutTrailingBlanks(leading) ELSE leading

\* C10 Step order: the resolved body of every record is
\* trimTrailing(trimLeading(crop(acquired lines))): range counts the lines
\* of the acquired, untrimmed body and trimming works on the cropped lines.
C10_StepOrder ==
    /\ \A j \in Sections :
          Resolved(j) => ResolvedBody(j) = ListValue(InOrder(Input(j)))
    /\ At("return") => body = InOrder(Input(i + 1))

\* lines "", "", "a" with range [2, 3] and the leading trim: the blank
\* lines count toward start, so "a" is kept
C10_Witness ==
    /\ Resolved(1)
    /\ ~Has(Input(1), "source")
    /\ Input(1)["body"] = StrValue(<<NL, NL, "a">>)
    /\ Has(Input(1), "range")
    /\ Input(1)["range"] = <<2, 3>>
    /\ IsTrue(Input(1), "trim_leading_blank_lines")
    /\ ResolvedBody(1) = ListValue(<<<<"a">>>>)

====
